---- MODULE Spec2Model ----
(***************************************************************************)
(* State-machine model of the sec-monitor ingestion pipeline               *)
(* (src/pipeline.py, src/database.py) together with its two triggers in    *)
(* src/app.py, and the listing that src/app.py and src/generate.py show.   *)
(*                                                                         *)
(* A run of run_pipeline is a sequence of steps of one runner: every       *)
(* access to the SQLite store (already_saved, save_item) and every call    *)
(* to an external service (feeds, meetings page, classifier) is one step,  *)
(* so that two runners interleave exactly where two threads of app.py can. *)
(***************************************************************************)
EXTENDS Integers, Sequences, FiniteSets, TLC

(***************************************************************************)
(* Bounds of the model.                                                    *)
(***************************************************************************)
MaxEntries == 2      \* entries the press-release feed serves at once
MaxLitigation == 1   \* entries the litigation feed serves at once
MaxCards == 1        \* event cards on the meetings page
MaxOverlapItems == 1 \* entries and cards served in all, when runs may overlap
MaxPageCards == 2    \* event cards on a meetings page with incomplete cards

(***************************************************************************)
(* Strings.  Python's str.strip() on the strings of the model.             *)
(***************************************************************************)
Absent == "<absent>"   \* a key the feed entry does not carry

strip(s) ==
    CASE s = " u2 " -> "u2"
      [] s = "M1. " -> "M1."
      [] s = "M2. " -> "M2."
      [] s = ". "   -> "."
      [] s = " "    -> ""
      [] OTHER      -> s

\* the url without a trailing slash
rstrip_slash(s) ==
    CASE s = "https://www.sec.gov/u1/" -> "https://www.sec.gov/u1"
      [] OTHER                         -> s

\* dict.get(key, default) on a feed entry
get(value, default) == IF value = Absent THEN default ELSE value

(***************************************************************************)
(* Sources (pipeline.py, RSS_FEEDS and MEETINGS_URL).                      *)
(***************************************************************************)
RSS_FEEDS == << [url |-> "https://www.sec.gov/news/pressreleases.rss",
                 source |-> "press_release"],
                [url |-> "https://www.sec.gov/enforcement-litigation/litigation-releases/rss",
                 source |-> "litigation_release"] >>

SEC_BASE == "https://www.sec.gov"

\* what the upstream can serve: feed entries as feedparser presents them
PressPool ==
    { [title |-> "T1", link |-> "https://www.sec.gov/u1", published |-> "d1", summary |-> "S1"],
      [title |-> "T2", link |-> " u2 ", published |-> Absent, summary |-> Absent] }

\* an entry without a title element and without a description
LitigationPool ==
    { [title |-> Absent, link |-> "https://www.sec.gov/u1/", published |-> "d1", summary |-> Absent] }

\* event cards of the meetings page, as BeautifulSoup presents them
CardPool ==
    { [heading |-> TRUE, a |-> TRUE, title |-> "M1", href |-> "/u1",
       p |-> Absent, time |-> "d2"] }

\* event cards of every make: complete, without the h3 heading, with a
\* heading without a link, with a link without text, with a link without
\* href
PageCardPool ==
    CardPool \cup
    { [heading |-> FALSE, a |-> FALSE, title |-> "", href |-> Absent,
       p |-> Absent, time |-> Absent],
      [heading |-> TRUE, a |-> FALSE, title |-> "", href |-> Absent,
       p |-> Absent, time |-> Absent],
      [heading |-> TRUE, a |-> TRUE, title |-> "", href |-> "/u3",
       p |-> Absent, time |-> Absent],
      [heading |-> TRUE, a |-> TRUE, title |-> "M2", href |-> Absent,
       p |-> Absent, time |-> Absent] }

RECURSIVE SeqsUpTo(_, _)
SeqsUpTo(S, n) ==
    IF n = 0 THEN { <<>> }
    ELSE LET shorter == SeqsUpTo(S, n - 1)
         IN  shorter \cup { Append(q, e) : q \in { x \in shorter : Len(x) = n - 1 }, e \in S }

Upstreams ==
    [ press_release      : SeqsUpTo(PressPool, MaxEntries),
      litigation_release : SeqsUpTo(LitigationPool, MaxLitigation),
      open_meeting       : SeqsUpTo(CardPool, MaxCards) ]

\* the upstreams small enough to follow two interleaved runs over them
SmallUpstreams ==
    { u \in Upstreams :
        Len(u.press_release) + Len(u.litigation_release) + Len(u.open_meeting)
            <= MaxOverlapItems }

\* the feeds serve nothing and the meetings page carries cards of every make
PageUpstreams ==
    [ press_release      : { <<>> },
      litigation_release : { <<>> },
      open_meeting       : SeqsUpTo(PageCardPool, MaxPageCards) ]

(***************************************************************************)
(* Step 1: FETCH.                                                          *)
(***************************************************************************)
\* one feed entry to one item (the dict built in the loop of fetch_rss_items)
rss_item(entry, source_name) ==
    [ source    |-> source_name,
      title     |-> strip(get(entry.title, "")),
      url       |-> strip(get(entry.link, "")),
      published |-> get(entry.published, ""),
      summary   |-> strip(get(entry.summary, get(entry.title, ""))) ]

\* fetch_rss_items on the entries feedparser returned
fetch_rss_items(entries, source_name) ==
    [ k \in 1..Len(entries) |-> rss_item(entries[k], source_name) ]

\* a card that yields an item: it has the heading and a link inside it
card_ok(card) == card.heading /\ card.a

meeting_item(card) ==
    LET title       == card.title
        description == get(card.p, "")
    IN  [ source    |-> "open_meeting",
          title     |-> title,
          url       |-> SEC_BASE \o get(card.href, ""),
          published |-> get(card.time, ""),
          summary   |-> strip(title \o ". " \o description) ]

\* fetch_meeting_items on the cards found in a page that was fetched
RECURSIVE fetch_meeting_items(_)
fetch_meeting_items(cards) ==
    IF cards = <<>> THEN <<>>
    ELSE IF card_ok(Head(cards))
         THEN <<meeting_item(Head(cards))>> \o fetch_meeting_items(Tail(cards))
         ELSE fetch_meeting_items(Tail(cards))

(***************************************************************************)
(* Step 2: ANALYZE.  The reply of the classification service is a text,    *)
(* modelled as a sequence of tokens: a markdown fence, the word json,      *)
(* white space, prose, or one complete JSON document.                      *)
(***************************************************************************)
\* JSON / Python scalars
JBool(b) == [t |-> "bool", b |-> b,     n |-> 0, s |-> ""]
JStr(s)  == [t |-> "str",  b |-> FALSE, n |-> 0, s |-> s]
JNum(n)  == [t |-> "num",  b |-> FALSE, n |-> n, s |-> ""]
JList    == [t |-> "list", b |-> FALSE, n |-> 0, s |-> ""]   \* a non-empty array
Missing  == [t |-> "missing", b |-> FALSE, n |-> 0, s |-> ""] \* key not in the object

\* JSON documents: an object with the keys the code reads, or something else
JObj(ir, reason, score) ==
    [kind |-> "obj", is_relevant |-> ir, reason |-> reason, score |-> score]
JOther(kind) ==
    [kind |-> kind, is_relevant |-> Missing, reason |-> Missing, score |-> Missing]

\* a string value with the three characters of the markdown fence in it
FenceText == "a <fence> b"

Fence    == [tok |-> "fence", doc |-> JOther("none")]
Cut      == [tok |-> "cut",  doc |-> JOther("none")]  \* a document cut short
JsonWord == [tok |-> "json", doc |-> JOther("none")]
Ws       == [tok |-> "ws",   doc |-> JOther("none")]
Prose    == [tok |-> "text", doc |-> JOther("none")]
Doc(d)   == [tok |-> "doc",  doc |-> d]

\* Python's truth value of an object (the test "if is_relevant:")
truthy(v) ==
    CASE v.t = "bool" -> v.b
      [] v.t = "str"  -> v.s # ""
      [] v.t = "num"  -> v.n # 0
      [] v.t = "list" -> TRUE
      [] OTHER        -> FALSE

\* str.strip() on a text: leading and trailing white space removed
RECURSIVE lstrip_text(_)
lstrip_text(raw) ==
    IF raw # <<>> /\ Head(raw) = Ws THEN lstrip_text(Tail(raw)) ELSE raw

RECURSIVE rstrip_text(_)
rstrip_text(raw) ==
    IF raw # <<>> /\ raw[Len(raw)] = Ws
    THEN rstrip_text(SubSeq(raw, 1, Len(raw) - 1)) ELSE raw

strip_text(raw) == rstrip_text(lstrip_text(raw))

\* raw.split(fence)[1] for a raw that starts with the fence: the text
\* between the opening fence and the next fence (or the end)
\* the fence occurs inside the text of the token
fence_inside(token) ==
    /\ token.tok = "doc"
    /\ \/ token.doc.reason = JStr(FenceText)
       \/ token.doc.is_relevant = JStr(FenceText)

\* split cuts at every occurrence of the three characters, those inside a
\* string of the JSON document included
RECURSIVE up_to_fence(_)
up_to_fence(raw) ==
    IF raw = <<>> \/ Head(raw) = Fence THEN <<>>
    ELSE IF fence_inside(Head(raw)) THEN <<Cut>>
    ELSE <<Head(raw)>> \o up_to_fence(Tail(raw))

split_fence_1(raw) == up_to_fence(Tail(raw))

\* lines 169-173: the fence stripping
strip_fences(raw) ==
    IF raw # <<>> /\ Head(raw) = Fence
    THEN LET inner  == split_fence_1(raw)
             nojson == IF inner # <<>> /\ Head(inner) = JsonWord
                       THEN Tail(inner) ELSE inner
         IN  strip_text(nojson)
    ELSE raw

\* json.loads: a value when the text is one JSON document (white space
\* around it allowed), JSONDecodeError otherwise
json_loads(raw) ==
    LET body == strip_text(raw)
    IN  IF Len(body) = 1 /\ body[1].tok = "doc"
        THEN [ok |-> TRUE,  value |-> body[1].doc]
        ELSE [ok |-> FALSE, value |-> JOther("none")]

\* what a call of is_crypto_related ends with
Return(is_relevant, reason) ==
    [raised |-> "", is_relevant |-> is_relevant, reason |-> reason]
Raise(exc) ==
    [raised |-> exc, is_relevant |-> JBool(FALSE), reason |-> JStr("")]

\* lines 165-181 on the text of the reply
parse_reply(text) ==
    LET raw    == strip_fences(strip_text(text))
        loaded == json_loads(raw)
    IN  IF ~loaded.ok THEN Return(JBool(FALSE), JStr(""))
        ELSE IF loaded.value.kind # "obj" THEN Raise("AttributeError")
        ELSE LET result == loaded.value
             IN  Return(IF result.is_relevant = Missing THEN JBool(FALSE)
                                                       ELSE result.is_relevant,
                        IF result.reason = Missing THEN JStr("")
                                                   ELSE result.reason)

\* the service: what client.messages.create does
\*   kind "error"  a transport failure (timeout, non-2xx, connection error)
\*   kind "empty"  a message without content
\*   kind "reply"  a message whose first content block carries text
ApiError   == [kind |-> "error", text |-> <<>>]
ApiEmpty   == [kind |-> "empty", text |-> <<>>]
ApiReply(text) == [kind |-> "reply", text |-> text]

\* is_crypto_related(title, summary); has_key: ANTHROPIC_API_KEY is set.
\* Without the key the SDK raises when the request is made; the function
\* has no branch of its own for that case.
is_crypto_related(has_key, outcome) ==
    IF ~has_key THEN Raise("AuthError")
    ELSE CASE outcome.kind = "error" -> Raise("APIError")
           [] outcome.kind = "empty" -> Raise("IndexError")
           [] OTHER                  -> parse_reply(outcome.text)

\* the replies of the model
Payload(d) == <<Doc(d)>>
Fenced(d)  == <<Fence, JsonWord, Ws, Doc(d), Ws, Fence>>
FencedPlain(d) == <<Fence, Ws, Doc(d), Ws, Fence>>

Relevant     == JObj(JBool(TRUE),  JStr("r"), Missing)
NotRelevant  == JObj(JBool(FALSE), JStr("r"), Missing)
StringFlag   == JObj(JStr("false"), JStr("r"), Missing)
ScoreSeven   == JObj(Missing, JStr("n/a"), JNum(7))
ListReason   == JObj(JBool(TRUE),  JList, Missing)
FenceReason  == JObj(JBool(TRUE),  JStr(FenceText), Missing)

\* the replies the runs of the model receive: one of each kind that the
\* steps after is_crypto_related tell apart
Replies ==
    { Payload(Relevant), Fenced(Relevant), Payload(NotRelevant), <<Prose>>,
      Payload(JOther("list")), Payload(StringFlag), Payload(ScoreSeven),
      Payload(ListReason), Fenced(FenceReason), FencedPlain(NotRelevant) }

ServiceOutcomes == { ApiError, ApiEmpty } \cup { ApiReply(t) : t \in Replies }

(***************************************************************************)
(* Step 3: STORE.  The items table of database.py; a row carries the       *)
(* columns the INSERT of save_item sets, and the autoincrement id.         *)
(***************************************************************************)
urls_of(table) == { table[k].url : k \in DOMAIN table }

\* a table that is dropped and created again
init_db_recreate(table) == <<>>

\* init_db(): CREATE TABLE IF NOT EXISTS leaves a table that is there
init_db(table) == table

\* a comparison that takes a url with and without its trailing slash for
\* the same url
already_saved_normalised(table, url) ==
    \E k \in DOMAIN table : rstrip_slash(table[k].url) = rstrip_slash(url)

\* a test that finds nothing
already_saved_never(table, url) == FALSE

\* SELECT 1 FROM items WHERE url = ? : exact comparison of the text
already_saved(table, url) == \E k \in DOMAIN table : table[k].url = url

\* a url column without the UNIQUE constraint
no_unique_violation(table, url) == FALSE

\* the UNIQUE constraint on the url column rejects the INSERT
unique_violation(table, url) == \E k \in DOMAIN table : table[k].url = url

\* sqlite3 binds str, int, bool and None; any other type is an error
bindable(v) == v.t \in {"str", "num", "bool", "null"}

\* datetime('now'), the DEFAULT of created_at: the clock in whole seconds.
\* It does not run backwards, and only the order of two stamps is ever
\* looked at, so the stamps are kept up to order: the first row is stamped
\* 1, a later row the second of the row before it or the next one.
latest(table) == table[Len(table)].created_at

datetime_now(table) ==
    IF table = <<>> THEN {1} ELSE { latest(table), latest(table) + 1 }

new_row(table, item, reason, now) ==
    [ id        |-> Len(table) + 1,
      source    |-> item.source,
      title     |-> item.title,
      url       |-> item.url,
      published |-> item.published,
      summary   |-> item.summary,
      ai_reason |-> reason,
      created_at |-> now ]

\* the INSERT goes through; otherwise the exception is swallowed
insert_ok(table, item, reason) ==
    bindable(reason) /\ ~unique_violation(table, item.url)

\* the table after save_item(item, reason)
save_item(table, item, reason, now) ==
    IF insert_ok(table, item, reason)
    THEN Append(table, new_row(table, item, reason, now))
    ELSE table

(***************************************************************************)
(* Display.  The dashboard (app.py) and the static generator (generate.py) *)
(* read the file items.json; no code of the repository writes it.          *)
(***************************************************************************)
\* Path("items.json") when the file does not exist
NoFile == [exists |-> FALSE, items |-> <<>>, last_updated |-> ""]

\* load_items(): the content of the file, or an empty listing
load_items(p) ==
    IF p.exists THEN [items |-> p.items, last_updated |-> p.last_updated]
    ELSE [items |-> <<>>, last_updated |-> "None"]

\* index(): the items handed to the template, in the order of the file,
\* and the total the template shows (items|length)
index(p) ==
    LET items == load_items(p).items
    IN  [items |-> items, total |-> Len(items)]

\* generate(): the rows of index.html; nothing is written without the file
generate(p) ==
    IF ~p.exists THEN [written |-> FALSE, items |-> <<>>, n_total |-> 0]
    ELSE [written |-> TRUE, items |-> p.items, n_total |-> Len(p.items)]

\* a run whose rows are written in one transaction, undone by an exception
after_exception_rollback(table, saved) ==
    SelectSeq(table, LAMBDA row : row.url \notin saved)

\* The table after an exception ended a run that had added the rows with
\* the urls in saved: each save_item committed its row when its "with"
\* block was left, so the exception undoes nothing.
after_exception(table, saved) == table

\* what save_item hands back to its caller: it has no return statement
save_item_returns(table, item, reason) == "None"

(***************************************************************************)
(* The state.                                                              *)
(***************************************************************************)
\* the two triggers of app.py that call pipeline.run_pipeline
Runners == {"scheduled_run", "run_now"}

VARIABLES
    db,             \* the items table: a sequence of rows
    upstream,       \* what each source serves
    has_key,        \* ANTHROPIC_API_KEY is configured
    pc,             \* where each runner is inside run_pipeline
    all_items,      \* run_pipeline's all_items
    feed,           \* position of the for loop over RSS_FEEDS (1-based)
    ix,             \* position of the for loop in all_items (1-based)
    new_count,      \* run_pipeline's new_count
    relevant_count, \* run_pipeline's relevant_count
    verdict,        \* (is_relevant, reason) of the last is_crypto_related
    reply,          \* what the service did on that call
    error,          \* the exception that ended the run, "" if none
    analyzed,       \* positions of all_items passed to is_crypto_related
    saved_urls,     \* urls of the rows this run's INSERTs added
    attempted,      \* the save_item call just made: its url, whether the
                    \* url was stored, whether a row was added, its result
    last_done,      \* all_items of the latest run to end, when it reached Done
    items_json,     \* the file items.json
    calls,          \* positions of all_items on which is_crypto_related
                    \* was called, in the order of the calls
    aborted         \* ended: the latest run to end was ended by an
                    \* exception; kept: the urls of the rows it had added

vars == << db, upstream, has_key, pc, all_items, feed, ix, new_count,
           relevant_count, verdict, reply, error, analyzed,
           saved_urls, attempted, last_done, items_json, calls, aborted >>

NoVerdict == Return(JBool(FALSE), JStr(""))
NoReply   == [kind |-> "none", text |-> <<>>]
NoAttempt == [url |-> "", dup |-> FALSE, added |-> FALSE, returned |-> "nothing"]
NoPrev    == [done |-> FALSE, items |-> <<>>]
NoAbort   == [ended |-> FALSE, kept |-> {}]

InitWith(served) ==
    /\ db = <<>>
    /\ upstream \in served
    /\ has_key \in BOOLEAN
    /\ pc = [r \in Runners |-> "idle"]
    /\ all_items = [r \in Runners |-> <<>>]
    /\ feed = [r \in Runners |-> 0]
    /\ ix = [r \in Runners |-> 0]
    /\ new_count = [r \in Runners |-> 0]
    /\ relevant_count = [r \in Runners |-> 0]
    /\ verdict = [r \in Runners |-> NoVerdict]
    /\ reply = [r \in Runners |-> NoReply]
    /\ error = [r \in Runners |-> ""]
    /\ analyzed = [r \in Runners |-> <<>>]
    /\ saved_urls = [r \in Runners |-> {}]
    /\ attempted = [r \in Runners |-> NoAttempt]
    /\ last_done = NoPrev
    /\ items_json = NoFile
    /\ calls = [r \in Runners |-> <<>>]
    /\ aborted = NoAbort

(***************************************************************************)
(* run_pipeline, step by step, for the runner r.                           *)
(***************************************************************************)
\* A trigger calls run_pipeline: init_db() finds or creates the table, and
\* all_items starts empty.  Nothing in app.py keeps a trigger from firing
\* while another run is in progress.
Start(r) ==
    /\ pc[r] \in {"idle", "done", "raised"}
    /\ pc' = [pc EXCEPT ![r] = "fetch_rss"]
    /\ all_items' = [all_items EXCEPT ![r] = <<>>]
    /\ feed' = [feed EXCEPT ![r] = 1]
    /\ ix' = [ix EXCEPT ![r] = 0]
    /\ new_count' = [new_count EXCEPT ![r] = 0]
    /\ relevant_count' = [relevant_count EXCEPT ![r] = 0]
    /\ verdict' = [verdict EXCEPT ![r] = NoVerdict]
    /\ reply' = [reply EXCEPT ![r] = NoReply]
    /\ error' = [error EXCEPT ![r] = ""]
    /\ analyzed' = [analyzed EXCEPT ![r] = <<>>]
    /\ saved_urls' = [saved_urls EXCEPT ![r] = {}]
    /\ attempted' = [attempted EXCEPT ![r] = NoAttempt]
    /\ db' = init_db(db)
    /\ UNCHANGED << upstream, has_key, last_done >>
    /\ UNCHANGED items_json
    /\ calls' = [calls EXCEPT ![r] = <<>>]
    /\ UNCHANGED aborted

\* One pass of the loop over RSS_FEEDS.  feedparser.parse does not raise
\* when the download or the parse fails: it returns a feed without entries.
FetchRss(r) ==
    /\ pc[r] = "fetch_rss"
    /\ feed[r] <= Len(RSS_FEEDS)
    /\ \E ok \in BOOLEAN :
         LET source_name == RSS_FEEDS[feed[r]].source
             entries     == IF ok THEN upstream[source_name] ELSE <<>>
         IN  all_items' = [all_items EXCEPT ![r] =
                             @ \o fetch_rss_items(entries, source_name)]
    /\ feed' = [feed EXCEPT ![r] = @ + 1]
    /\ pc' = [pc EXCEPT ![r] =
                 IF feed[r] = Len(RSS_FEEDS) THEN "fetch_meetings" ELSE "fetch_rss"]
    /\ UNCHANGED << db, upstream, has_key, ix, new_count, relevant_count,
                    verdict, reply, error, analyzed, saved_urls,
                    attempted, last_done >>
    /\ UNCHANGED items_json
    /\ UNCHANGED calls
    /\ UNCHANGED aborted

\* a meetings page that is fetched only when the loop has used up the
\* items of the feeds
FetchMeetings_lazy(r) ==
    /\ \/ /\ pc[r] = "fetch_meetings"
          /\ pc' = [pc EXCEPT ![r] = "loop"]
          /\ ix' = [ix EXCEPT ![r] = 1]
          /\ UNCHANGED << all_items, feed, error, last_done >>
       \/ /\ pc[r] = "loop"
          /\ ix[r] > Len(all_items[r])
          /\ feed[r] = Len(RSS_FEEDS) + 1
          /\ \E ok \in BOOLEAN :
               IF ok
               THEN /\ all_items' = [all_items EXCEPT ![r] =
                                        @ \o fetch_meeting_items(upstream.open_meeting)]
                    /\ feed' = [feed EXCEPT ![r] = @ + 1]
                    /\ UNCHANGED << pc, ix, error, last_done >>
               ELSE /\ pc' = [pc EXCEPT ![r] = "raised"]
                    /\ error' = [error EXCEPT ![r] = "RequestException"]
                    /\ last_done' = NoPrev
                    /\ UNCHANGED << all_items, ix, feed >>
    /\ UNCHANGED << db, upstream, has_key, new_count, relevant_count,
                    verdict, reply, analyzed, saved_urls, attempted >>
    /\ UNCHANGED items_json
    /\ UNCHANGED calls
    /\ aborted' = IF pc'[r] = "raised"
                  THEN [ended |-> TRUE, kept |-> saved_urls[r]] ELSE aborted

\* all_items.extend(fetch_meeting_items()): requests.get may raise and
\* raise_for_status raises on a non-2xx response; run_pipeline has no try
\* around the call, so the exception leaves run_pipeline.
FetchMeetings(r) ==
    /\ pc[r] = "fetch_meetings"
    /\ \E ok \in BOOLEAN :
         IF ok
         THEN LET fetched == all_items[r] \o fetch_meeting_items(upstream.open_meeting)
              IN  /\ all_items' = [all_items EXCEPT ![r] = fetched]
                  /\ pc' = [pc EXCEPT ![r] = "loop"]
                  /\ ix' = [ix EXCEPT ![r] = 1]
                  /\ UNCHANGED << error, last_done >>
         ELSE /\ pc' = [pc EXCEPT ![r] = "raised"]
              /\ error' = [error EXCEPT ![r] = "RequestException"]
              /\ last_done' = NoPrev
              /\ UNCHANGED << all_items, ix >>
    /\ db' = IF pc'[r] = "raised" THEN after_exception(db, saved_urls[r]) ELSE db
    /\ UNCHANGED << upstream, has_key, feed, new_count, relevant_count,
                    verdict, reply, analyzed, saved_urls, attempted >>
    /\ UNCHANGED items_json
    /\ UNCHANGED calls
    /\ aborted' = IF pc'[r] = "raised"
                  THEN [ended |-> TRUE, kept |-> saved_urls[r]] ELSE aborted

\* The head of the for loop and the already_saved test of the next item.
NextItem(r) ==
    /\ pc[r] = "loop"
    /\ ix[r] <= Len(all_items[r])
    /\ IF already_saved(db, all_items[r][ix[r]].url)
       THEN /\ ix' = [ix EXCEPT ![r] = @ + 1]
            /\ UNCHANGED << pc, new_count, analyzed >>
       ELSE /\ new_count' = [new_count EXCEPT ![r] = @ + 1]
            /\ analyzed' = [analyzed EXCEPT ![r] = Append(@, ix[r])]
            /\ pc' = [pc EXCEPT ![r] = "analyze"]
            /\ ix' = ix
    /\ verdict' = [verdict EXCEPT ![r] = NoVerdict]
    /\ reply' = [reply EXCEPT ![r] = NoReply]
    /\ attempted' = [attempted EXCEPT ![r] = NoAttempt]
    /\ UNCHANGED << db, upstream, has_key, all_items, feed, relevant_count,
                    error, saved_urls, last_done >>
    /\ UNCHANGED items_json
    /\ UNCHANGED calls
    /\ UNCHANGED aborted

\* is_crypto_related(item["title"], item["summary"]) and the branch on its
\* result.  An exception of the call leaves run_pipeline.
Analyze(r) ==
    /\ pc[r] = "analyze"
    /\ \E outcome \in ServiceOutcomes :
         LET res == is_crypto_related(has_key, outcome)
         IN  /\ reply' = [reply EXCEPT ![r] = IF has_key THEN outcome ELSE NoReply]
             /\ IF res.raised # ""
                THEN /\ pc' = [pc EXCEPT ![r] = "raised"]
                     /\ error' = [error EXCEPT ![r] = res.raised]
                     /\ last_done' = NoPrev
                     /\ UNCHANGED << verdict, relevant_count, ix >>
                ELSE /\ verdict' = [verdict EXCEPT ![r] = res]
                     /\ UNCHANGED << error, last_done >>
                     /\ IF truthy(res.is_relevant)
                        THEN /\ relevant_count' = [relevant_count EXCEPT ![r] = @ + 1]
                             /\ pc' = [pc EXCEPT ![r] = "save"]
                             /\ ix' = ix
                        ELSE /\ pc' = [pc EXCEPT ![r] = "loop"]
                             /\ ix' = [ix EXCEPT ![r] = @ + 1]
                             /\ UNCHANGED relevant_count
    /\ db' = IF pc'[r] = "raised" THEN after_exception(db, saved_urls[r]) ELSE db
    /\ UNCHANGED << upstream, has_key, all_items, feed, new_count,
                    analyzed, saved_urls, attempted >>
    /\ UNCHANGED items_json
    /\ calls' = [calls EXCEPT ![r] = Append(@, ix[r])]
    /\ aborted' = IF pc'[r] = "raised"
                  THEN [ended |-> TRUE, kept |-> saved_urls[r]] ELSE aborted

\* save_item(item, reason): one transaction on its own connection.
SaveItem(r) ==
    /\ pc[r] = "save"
    /\ LET item   == all_items[r][ix[r]]
           reason == verdict[r].reason
       IN  /\ \E now \in datetime_now(db) : db' = save_item(db, item, reason, now)
           /\ saved_urls' = [saved_urls EXCEPT ![r] =
                                IF db' # db THEN @ \cup {item.url} ELSE @]
           /\ attempted' = [attempted EXCEPT ![r] =
                               [url   |-> item.url,
                                dup   |-> item.url \in urls_of(db),
                                added |-> db' # db,
                                returned |-> save_item_returns(db, item, reason)]]
    /\ ix' = [ix EXCEPT ![r] = @ + 1]
    /\ pc' = [pc EXCEPT ![r] = "loop"]
    /\ verdict' = [verdict EXCEPT ![r] = NoVerdict]
    /\ reply' = [reply EXCEPT ![r] = NoReply]
    /\ UNCHANGED << upstream, has_key, all_items, feed, new_count,
                    relevant_count, error, analyzed, last_done >>
    /\ UNCHANGED items_json
    /\ UNCHANGED calls
    /\ UNCHANGED aborted

\* the two lines run_pipeline prints about its counts: "Total items
\* fetched: n" after the fetches, and "Done: n new items analyzed, m saved"
total_line(items) == [fetched |-> Len(items)]

done_line(new, relevant) == [new |-> new, saved |-> relevant]

\* a loop that is left after its first pass
Done_early(r) ==
    /\ pc[r] = "loop"
    /\ pc' = [pc EXCEPT ![r] = "done"]
    /\ verdict' = [verdict EXCEPT ![r] = NoVerdict]
    /\ reply' = [reply EXCEPT ![r] = NoReply]
    /\ attempted' = [attempted EXCEPT ![r] = NoAttempt]
    /\ last_done' = [done |-> TRUE, items |-> all_items[r]]
    /\ UNCHANGED << db, upstream, has_key, all_items, feed, ix, new_count,
                    relevant_count, error, analyzed, saved_urls >>
    /\ UNCHANGED items_json
    /\ UNCHANGED calls
    /\ aborted' = NoAbort

\* The loop is over: the Done line is printed and run_pipeline returns.
Done(r) ==
    /\ pc[r] = "loop"
    /\ ix[r] > Len(all_items[r])
    /\ pc' = [pc EXCEPT ![r] = "done"]
    /\ verdict' = [verdict EXCEPT ![r] = NoVerdict]
    /\ reply' = [reply EXCEPT ![r] = NoReply]
    /\ attempted' = [attempted EXCEPT ![r] = NoAttempt]
    /\ last_done' = [done |-> TRUE, items |-> all_items[r]]
    /\ UNCHANGED << db, upstream, has_key, all_items, feed, ix, new_count,
                    relevant_count, error, analyzed, saved_urls >>
    /\ UNCHANGED items_json
    /\ UNCHANGED calls
    /\ aborted' = NoAbort

\* The process is started again with the credential added to or removed
\* from its environment (load_dotenv reads it once, at import); the
\* database file stays.  Every local of the old process is gone.
Restart ==
    /\ \A r \in Runners : pc[r] \in {"idle", "done", "raised"}
    /\ db # <<>>
    /\ has_key' = ~has_key
    /\ pc' = [r \in Runners |-> "idle"]
    /\ all_items' = [r \in Runners |-> <<>>]
    /\ feed' = [r \in Runners |-> 0]
    /\ ix' = [r \in Runners |-> 0]
    /\ new_count' = [r \in Runners |-> 0]
    /\ relevant_count' = [r \in Runners |-> 0]
    /\ verdict' = [r \in Runners |-> NoVerdict]
    /\ reply' = [r \in Runners |-> NoReply]
    /\ error' = [r \in Runners |-> ""]
    /\ analyzed' = [r \in Runners |-> <<>>]
    /\ saved_urls' = [r \in Runners |-> {}]
    /\ attempted' = [r \in Runners |-> NoAttempt]
    /\ last_done' = NoPrev
    /\ UNCHANGED << db, upstream >>
    /\ UNCHANGED items_json
    /\ calls' = [r \in Runners |-> <<>>]
    /\ aborted' = NoAbort

Step(r) ==
    \/ Start(r)
    \/ FetchRss(r)
    \/ FetchMeetings(r)
    \/ NextItem(r)
    \/ Analyze(r)
    \/ SaveItem(r)
    \/ Done(r)

\* app.py: the scheduler thread and the request threads run side by side
Next == Restart \/ \E r \in Runners : Step(r)

Init == InitWith(SmallUpstreams)

Spec == Init /\ [][Next]_vars

\* python pipeline.py, or triggers that never overlap: one run at a time
SerialNext == Restart \/ Step("run_now")

SerialInit == InitWith(Upstreams)

SerialSpec == SerialInit /\ [][SerialNext]_vars

\* one run at a time, over a meetings page with incomplete cards
PageInit == InitWith(PageUpstreams)

PageSpec == PageInit /\ [][SerialNext]_vars

(***************************************************************************)
(* Properties.                                                             *)
(***************************************************************************)
U1      == "https://www.sec.gov/u1"
U1Slash == "https://www.sec.gov/u1/"
U2      == "u2"

\* the run of r is over
ended(r) == pc[r] \in {"done", "raised"}

\* the step is r's save_item call
SaveStep(r) == pc[r] = "save" /\ pc'[r] # "save"

\* the step is r's already_saved test of the item at ix[r]
DedupStep(r) ==
    /\ pc[r] = "loop" /\ ix[r] <= Len(all_items[r])
    /\ (pc'[r] # pc[r] \/ ix'[r] # ix[r])

\* C1: in every reachable state of the store, whatever runs came before
\* (overlapping ones and ones that ended in an exception included), no two
\* distinct rows carry the same url.
C1_UrlUnique ==
    \A i, j \in DOMAIN db : i # j => db[i].url # db[j].url

\* a run was refused a row whose url another run had stored in the
\* meantime, and that other runner's latest run ended in an exception
C1_Witness ==
    \E r, q \in Runners :
        /\ r # q
        /\ attempted[r].dup /\ ~attempted[r].added
        /\ pc[q] = "raised"
        /\ attempted[r].url \in urls_of(db)

\* C2: a run that follows a completed run and fetches the same items as
\* that run adds no row to the store.
C2_Idempotent ==
    \A r \in Runners :
        ( /\ pc[r] \in {"loop", "analyze", "save"}
          /\ last_done = [done |-> TRUE, items |-> all_items[r]] )
        => saved_urls[r] = {}

\* C3: a failed fetch of the meetings page does not end the run: no run is
\* ever ended by the exception of that fetch.
C3_MeetingsFailureIsolated ==
    \A r \in Runners : ~(pc[r] = "raised" /\ error[r] = "RequestException")

\* C4: a transport failure of the classification call leaves the item
\* without verdict and the run going.
C4_TransportFailureIsolated ==
    \A r \in Runners :
        reply[r] = ApiError => (pc[r] # "raised" /\ verdict[r] = NoVerdict)

\* C5: without a credential the classifier answers "no verdict" without a
\* service call and without raising, so no run ends in an exception of the
\* classifier.
C5_DisabledWithoutKey ==
    ~has_key =>
        \A r \in Runners :
            /\ reply[r] = NoReply
            /\ ~(pc[r] = "raised" /\ error[r] # "RequestException")

\* C6: classification disabled, the store holds u1 and the fetch succeeds
\* and yields [X(u1), Y(u2)]: the run ends with Done, the store holds exactly u1 and
\* u2, and it reports 1 new and 1 saved.
C6_Scenario ==
    \A r \in Runners :
        ( /\ ~has_key
          /\ ended(r) /\ error[r] # "RequestException"
          /\ Len(all_items[r]) = 2
          /\ all_items[r][1].url = U1 /\ all_items[r][2].url = U2
          /\ urls_of(db) \ saved_urls[r] = {U1} )
        => ( /\ pc[r] = "done"
             /\ urls_of(db) = {U1, U2}
             /\ new_count[r] = 1
             /\ relevant_count[r] = 1 )

\* the reply has the expected shape: a JSON object, fenced or not, with a
\* boolean is_relevant and a string reason
ExpectedShape(text) ==
    \E k \in DOMAIN text :
        /\ text[k].tok = "doc"
        /\ text \in { Payload(text[k].doc), Fenced(text[k].doc),
                      FencedPlain(text[k].doc) }
        /\ text[k].doc.kind = "obj"
        /\ text[k].doc.is_relevant.t = "bool"
        /\ text[k].doc.reason.t = "str"

\* C7: for a reply that has not the expected shape, is_crypto_related does
\* not raise and returns "no verdict" (not relevant, empty reason).
C7_ClassifierFallback ==
    \A r \in Runners :
        (reply[r].kind = "reply" /\ ~ExpectedShape(reply[r].text))
        => (pc[r] # "raised" /\ verdict[r] = NoVerdict)

\* C8: when the service answers score 7 for a new item, the item goes on
\* to be stored, with no score.
C8_ScoreSevenStored ==
    \A r \in Runners :
        reply[r] = ApiReply(Payload(ScoreSeven))
        => (pc[r] = "save" /\ verdict[r].is_relevant # JNum(7))

\* C9 as stated: save_item of a stored url changes no row and raises
\* nothing, and save_item tells its caller whether a row was added.
C9_TellsCaller ==
    [][ \A r \in Runners : SaveStep(r) =>
          LET url == all_items[r][ix[r]].url
          IN  /\ pc'[r] = "loop"
              /\ url \in urls_of(db) => (db' = db /\ attempted'[r].returned = "False")
              /\ db' # db => attempted'[r].returned = "True" ]_vars

\* C9 as amended: save_item of a stored url changes no row and raises
\* nothing; otherwise it adds at most one row, with that url, after the
\* rows there are; in both cases it returns None, so the caller is not
\* told whether the item was accepted.
C9_DuplicateNoOp ==
    [][ \A r \in Runners : SaveStep(r) =>
          LET url == all_items[r][ix[r]].url
          IN  /\ pc'[r] = "loop"
              /\ attempted'[r].returned = "None"
              /\ url \in urls_of(db) => db' = db
              /\ db' # db => /\ Len(db') = Len(db) + 1
                             /\ SubSeq(db', 1, Len(db)) = db
                             /\ db'[Len(db')].url = url ]_vars

\* save_item was called with a url that was stored by then, and returned
C9_Witness ==
    \E r \in Runners :
        attempted[r].dup /\ ~attempted[r].added /\ attempted[r].returned = "None"
        /\ pc[r] = "loop"

\* feeds in configured order, then the meetings page
SourceRank(source) ==
    CASE source = "press_release"      -> 1
      [] source = "litigation_release" -> 2
      [] source = "open_meeting"       -> 3

RECURSIVE Increasing(_)
Increasing(q) ==
    Len(q) < 2 \/ (q[1] < q[2] /\ Increasing(Tail(q)))

\* C10: an item is taken as already seen iff its url is, character for
\* character, the url of a stored row; the other items are new, and are
\* passed on in the order fetched: feeds in configured order, then the
\* meetings page.
C10_DedupExactInOrder ==
    /\ [][ \A r \in Runners : DedupStep(r) =>
             LET url  == all_items[r][ix[r]].url
                 seen == \E k \in DOMAIN db : db[k].url = url
             IN  IF seen
                 THEN /\ pc'[r] = "loop" /\ ix'[r] = ix[r] + 1
                      /\ analyzed'[r] = analyzed[r]
                 ELSE /\ pc'[r] = "analyze" /\ ix'[r] = ix[r]
                      /\ analyzed'[r] = Append(analyzed[r], ix[r]) ]_vars
    /\ [](\A r \in Runners :
             /\ Increasing(analyzed[r])
             /\ pc[r] \in {"analyze", "save"} =>
                    (analyzed[r] # <<>> /\ analyzed[r][Len(analyzed[r])] = ix[r])
             /\ \A i, j \in DOMAIN all_items[r] :
                    i < j => SourceRank(all_items[r][i].source)
                               <= SourceRank(all_items[r][j].source))

\* with u1 stored, the item whose url is u1 with a trailing slash is
\* taken as new, after an item of an earlier feed was taken as new too
C10_Witness ==
    \E r \in Runners :
        /\ pc[r] = "analyze"
        /\ Len(analyzed[r]) = 2
        /\ all_items[r][ix[r]].url = U1Slash
        /\ U1 \in urls_of(db)

\* a run of r is in flight: run_pipeline was called and has not returned
in_flight(r) == pc[r] \notin {"idle", "done", "raised"}

\* C11: at the end of a run the saved count of the Done line is the number
\* of rows the run added to the store, its new count is the number of
\* fetched items whose url was not stored when the item was reached, and
\* the total printed is the number of items fetched.
C11_DoneReportAccurate ==
    \A r \in Runners :
        pc[r] = "done" =>
            LET report == done_line(new_count[r], relevant_count[r])
            IN  /\ report.saved = Cardinality(saved_urls[r])
                /\ report.new = Len(analyzed[r])
                /\ report.new >= report.saved
                /\ total_line(all_items[r]).fetched = Len(all_items[r])

\* C12: at no time are two runs in flight.
C12_SingleFlight ==
    Cardinality({ r \in Runners : in_flight(r) }) <= 1

\* C13: after a run that reached Done, every item the run stored is in the
\* listing of the dashboard, and the dashboard and the static generator
\* show the items of the store: the same urls, the same total.
C13_StoredItemsDisplayed ==
    \A r \in Runners :
        pc[r] = "done" =>
            /\ saved_urls[r] \subseteq urls_of(index(items_json).items)
            /\ urls_of(index(items_json).items) = urls_of(db)
            /\ index(items_json).total = Len(db)
            /\ urls_of(generate(items_json).items) = urls_of(db)

\* C14: of two stored items, the one ingested later comes first in the
\* listing handed to the dashboard.
C14_NewestFirst ==
    \A i, j \in DOMAIN db :
        db[i].created_at < db[j].created_at =>
            LET listing == index(items_json).items
            IN  \E a, b \in DOMAIN listing :
                    /\ a < b
                    /\ listing[a].url = db[j].url
                    /\ listing[b].url = db[i].url

\* C15: no step of any run, and no restart, removes a stored row or
\* changes one of its fields: the table after a step is the table before
\* it, with at most new rows after the old ones.
C15_AppendOnly ==
    [][ /\ Len(db') >= Len(db)
        /\ SubSeq(db', 1, Len(db)) = db ]_vars

\* a run that was started with a row in the store went over its items
\* and ended, with the row still there
C15_Witness ==
    \E r \in Runners :
        /\ pc[r] = "done"
        /\ all_items[r] # <<>>
        /\ new_count[r] = 0
        /\ db # <<>>

\* the source gave no summary for the stored row: the feed entry or the
\* event card the row was built from has none, or an empty one
no_summary_given(row) ==
    IF row.source = "open_meeting"
    THEN \E k \in DOMAIN upstream.open_meeting :
            LET card == upstream.open_meeting[k]
            IN  /\ card_ok(card)
                /\ meeting_item(card).url = row.url
                /\ meeting_item(card).title = row.title
                /\ get(card.p, "") = ""
    ELSE \E k \in DOMAIN upstream[row.source] :
            LET entry == upstream[row.source][k]
            IN  /\ rss_item(entry, row.source).url = row.url
                /\ rss_item(entry, row.source).title = row.title
                /\ get(entry.summary, "") = ""

\* C16: every stored row has a source, a title, a url and a created_at,
\* none of them empty, and its summary is its title when the source gave
\* no summary.
C16_StoredItemComplete ==
    \A k \in DOMAIN db :
        /\ db[k].source # ""
        /\ db[k].title # ""
        /\ db[k].url # ""
        /\ db[k].created_at >= 1
        /\ no_summary_given(db[k]) => db[k].summary = db[k].title

\* the two ways the model shows C16 to fail, each on its own
C16_TitleNonEmpty == \A k \in DOMAIN db : db[k].title # ""

C16_SummaryDefaultsToTitle ==
    \A k \in DOMAIN db : no_summary_given(db[k]) => db[k].summary = db[k].title

\* C17: an item that an earlier completed run fetched and analyzed is
\* skipped by a later run: it is not counted as new and not passed to
\* is_crypto_related again.  (An item of the earlier run that is not
\* stored now was not stored then either, so that run analyzed it.)
C17_SeenItemsSkipped ==
    \A r \in Runners :
        (last_done.done /\ pc[r] = "analyze")
        => all_items[r][ix[r]].url \notin urls_of(last_done.items)

\* the phase of the run of r
phase(r) ==
    CASE pc[r] \in {"fetch_rss", "fetch_meetings"} -> "FETCHING"
      [] pc[r] = "loop"    -> "DEDUPING"
      [] pc[r] = "analyze" -> "CLASSIFYING"
      [] pc[r] = "save"    -> "STORING"
      [] pc[r] = "done"    -> "DONE"
      [] pc[r] = "raised"  -> "RAISED"
      [] OTHER             -> "IDLE"

\* the step is a fetch of r; the step is r's classifier call
FetchStep(r) == phase(r) = "FETCHING" /\ (pc'[r] # pc[r] \/ feed'[r] # feed[r])
AnalyzeStep(r) == pc[r] = "analyze" /\ pc'[r] # "analyze"

\* C18 as stated: the phases of a run are phases of the batch: no fetch
\* after the first dedup test, no dedup test after the first classifier
\* call, no classifier call after the first store write.
C18_BatchPhaseOrder ==
    [][ \A r \in Runners :
          /\ FetchStep(r) => ix[r] = 0
          /\ DedupStep(r) => analyzed[r] = <<>>
          /\ AnalyzeStep(r) => relevant_count[r] = 0 ]_vars

\* the phases a step of a run may lead to
PhaseAfter ==
    { <<"IDLE", "FETCHING">>, <<"DONE", "FETCHING">>, <<"RAISED", "FETCHING">>,
      <<"FETCHING", "FETCHING">>, <<"FETCHING", "DEDUPING">>, <<"FETCHING", "RAISED">>,
      <<"DEDUPING", "DEDUPING">>, <<"DEDUPING", "CLASSIFYING">>, <<"DEDUPING", "DONE">>,
      <<"CLASSIFYING", "STORING">>, <<"CLASSIFYING", "DEDUPING">>,
      <<"CLASSIFYING", "RAISED">>, <<"STORING", "DEDUPING">> }

\* C18 as amended: every fetch of a run finishes before its first dedup
\* test, and the run does not fetch again; after that the phases are
\* phases of one item at a time, in fetch order: the dedup test of an
\* item, then its classifier call if its url is not stored, then its store
\* write if it is judged relevant, then the dedup test of the next item;
\* the run is Done only when every item has been through this.
C18_PerItemPhaseOrder ==
    [][ \A r \in Runners :
          (pc'[r] # pc[r] \/ ix'[r] # ix[r] \/ feed'[r] # feed[r]) =>
            \/ \A q \in Runners : pc'[q] = "idle"
            \/ /\ <<phase(r), phase(r)'>> \in PhaseAfter
               /\ FetchStep(r) => ix[r] = 0
               /\ DedupStep(r) => feed[r] > Len(RSS_FEEDS)
               /\ phase(r) # "FETCHING" /\ phase(r)' # "FETCHING" =>
                      /\ ix'[r] \in {ix[r], ix[r] + 1}
                      /\ all_items'[r] = all_items[r]
               /\ phase(r)' \in {"CLASSIFYING", "STORING"} =>
                      /\ ix'[r] = ix[r]
                      /\ analyzed'[r][Len(analyzed'[r])] = ix[r]
               /\ phase(r)' = "CLASSIFYING" =>
                      all_items[r][ix[r]].url \notin urls_of(db)
               /\ phase(r)' = "STORING" => truthy(verdict'[r].is_relevant)
               /\ phase(r)' = "DONE" => ix[r] > Len(all_items[r]) ]_vars

\* a run is at the classifier call of an item after it has stored an
\* earlier item
C18_Witness ==
    \E r \in Runners :
        /\ pc[r] = "analyze"
        /\ saved_urls[r] # {}
        /\ Len(analyzed[r]) >= 2

\* the sequence without its last element
Front(q) == SubSeq(q, 1, Len(q) - 1)

\* C19: within a run, is_crypto_related is called once, and not more, for
\* each item reached whose url is not stored when it is reached, in fetch
\* order, and is not called for an item whose url is stored then.
\* (analyzed[r] holds the positions found not stored by the dedup test.)
C19_OneCallPerNewItem ==
    /\ [](\A r \in Runners :
             /\ Increasing(calls[r])
             /\ calls[r] = IF pc[r] = "analyze" THEN Front(analyzed[r])
                                                ELSE analyzed[r])
    /\ [][ \A r \in Runners :
             /\ DedupStep(r) =>
                   LET stored == all_items[r][ix[r]].url \in urls_of(db)
                   IN  /\ stored => (analyzed'[r] = analyzed[r] /\ pc'[r] # "analyze")
                       /\ ~stored => analyzed'[r] = Append(analyzed[r], ix[r])
             /\ calls'[r] # calls[r] =>
                   \/ calls'[r] = <<>>
                   \/ /\ pc[r] = "analyze"
                      /\ calls'[r] = Append(calls[r], ix[r]) ]_vars

\* a run has called the classifier for two items and passed over a
\* stored one
C19_Witness ==
    \E r \in Runners :
        /\ Len(calls[r]) = 2
        /\ pc[r] = "loop"
        /\ ix[r] > Len(calls[r]) + 1

\* the payloads of the expected shape among the replies of the model
ExpectedDocs == { Relevant, NotRelevant, FenceReason }

\* C20: for a reply that is a payload of the expected shape inside a
\* fence, with or without the word json after the opening fence,
\* is_crypto_related returns what the payload says, as it does for the
\* payload without the fence.
C20_FenceStripped ==
    \A r \in Runners : \A d \in ExpectedDocs :
        /\ reply[r] \in { ApiReply(Fenced(d)), ApiReply(FencedPlain(d)) }
              => verdict[r] = Return(d.is_relevant, d.reason)
        /\ reply[r] = ApiReply(Payload(d))
              => verdict[r] = Return(d.is_relevant, d.reason)

\* the part of C20 about payloads that have no fence inside a string
C20_FenceStrippedPlainPayload ==
    \A r \in Runners : \A d \in ExpectedDocs \ {FenceReason} :
        reply[r] \in { ApiReply(Fenced(d)), ApiReply(FencedPlain(d)) }
            => verdict[r] = Return(d.is_relevant, d.reason)

\* a card with everything the item needs: the heading, the link in it,
\* the text of the link and its href
complete(card) ==
    /\ card.heading /\ card.a
    /\ card.title # ""
    /\ get(card.href, "") # ""

RECURSIVE complete_cards(_)
complete_cards(cards) ==
    IF cards = <<>> THEN <<>>
    ELSE IF complete(Head(cards))
         THEN <<Head(cards)>> \o complete_cards(Tail(cards))
         ELSE complete_cards(Tail(cards))

\* the run has the items of the meetings page (the feeds served nothing)
page_fetched(r) == pc[r] \in {"loop", "analyze", "save", "done"}

\* C21: the items of a fetched page are the items of its complete cards,
\* one each, in page order; a card that lacks the heading, the link, the
\* text of the link or the href gives no item.
C21_IncompleteCardsSkipped ==
    \A r \in Runners :
        (page_fetched(r) /\ upstream.press_release = <<>>
                         /\ upstream.litigation_release = <<>>) =>
            LET cards == complete_cards(upstream.open_meeting)
            IN  /\ Len(all_items[r]) = Len(cards)
                /\ \A k \in DOMAIN all_items[r] :
                      /\ all_items[r][k].title = cards[k].title
                      /\ all_items[r][k].url = SEC_BASE \o cards[k].href

\* the part of C21 that the code keeps: cards without the heading or
\* without the link in it give no item, every other card gives one item,
\* in page order
C21_CardsWithoutLinkSkipped ==
    \A r \in Runners :
        (page_fetched(r) /\ upstream.press_release = <<>>
                         /\ upstream.litigation_release = <<>>) =>
            /\ Len(all_items[r]) =
                 Cardinality({ k \in DOMAIN upstream.open_meeting :
                                 card_ok(upstream.open_meeting[k]) })
            /\ \A k \in DOMAIN all_items[r] :
                  \E j \in DOMAIN upstream.open_meeting :
                      /\ j >= k
                      /\ all_items[r][k].title = upstream.open_meeting[j].title

\* the row is the row of the item: the columns the INSERT sets
row_of(row, item) ==
    /\ row.source = item.source /\ row.title = item.title
    /\ row.url = item.url /\ row.published = item.published
    /\ row.summary = item.summary

\* C22: a row is added only by the save_item call of a run, for the item
\* the run is at: an item it fetched, whose url its dedup test found not
\* stored, and for which is_crypto_related returned is_relevant = true in
\* this run; a call that returns not relevant leaves the store as it is.
C22_OnlyRelevantNewStored ==
    [][ /\ db' # db =>
              \E r \in Runners :
                  /\ SaveStep(r)
                  /\ Len(db') = Len(db) + 1
                  /\ row_of(db'[Len(db')], all_items[r][ix[r]])
                  /\ calls[r] # <<>> /\ calls[r][Len(calls[r])] = ix[r]
                  /\ analyzed[r] = calls[r]
                  /\ verdict[r].is_relevant = JBool(TRUE)
        /\ \A r \in Runners : AnalyzeStep(r) => db' = db ]_vars

\* C22 with "a true value in Python's sense" for "true": the part of the
\* claim that does not depend on the shape of the reply
C22_OnlyTruthyNewStored ==
    [][ /\ db' # db =>
              \E r \in Runners :
                  /\ SaveStep(r)
                  /\ Len(db') = Len(db) + 1
                  /\ row_of(db'[Len(db')], all_items[r][ix[r]])
                  /\ calls[r] # <<>> /\ calls[r][Len(calls[r])] = ix[r]
                  /\ analyzed[r] = calls[r]
                  /\ truthy(verdict[r].is_relevant)
        /\ \A r \in Runners : AnalyzeStep(r) => db' = db ]_vars

\* C23: every source is fetched before the first classifier call and the
\* first store write of a run, so a run that a fetcher's exception ended
\* has called the classifier for no item and added no row.
C23_FetchFailureLeavesStore ==
    \A r \in Runners :
        (phase(r) = "FETCHING" \/ (pc[r] = "raised" /\ error[r] = "RequestException"))
        => /\ calls[r] = <<>>
           /\ analyzed[r] = <<>>
           /\ saved_urls[r] = {}
           /\ new_count[r] = 0 /\ relevant_count[r] = 0
           /\ attempted[r] = NoAttempt

\* the fetch of the meetings page ended a run that had fetched items from
\* a feed, with rows of an earlier run in the store
C23_Witness ==
    \E r \in Runners :
        /\ pc[r] = "raised" /\ error[r] = "RequestException"
        /\ all_items[r] # <<>>
        /\ \E k \in DOMAIN all_items[r] : all_items[r][k].url \notin urls_of(db)
        /\ db # <<>>

\* the positions in the sequence q
Range(q) == { q[k] : k \in DOMAIN q }

\* C24: an exception that ends a run leaves in the store every row the
\* run had added, and a later run skips the items of those rows and, when
\* it gets through its loop, has called the classifier for every fetched
\* item that is not stored.
C24_PartialProgressDurable ==
    /\ [][ \A r \in Runners :
             (pc'[r] = "raised" /\ pc[r] # "raised") =>
                 /\ db' = db
                 /\ saved_urls[r] \subseteq urls_of(db')
                 /\ aborted' = [ended |-> TRUE, kept |-> saved_urls[r]] ]_vars
    /\ [](\A r \in Runners :
             /\ saved_urls[r] \subseteq urls_of(db)
             /\ (aborted.ended /\ pc[r] \in {"loop", "analyze", "save"}) =>
                    /\ aborted.kept \subseteq urls_of(db)
                    /\ \A k \in Range(calls[r]) :
                          all_items[r][k].url \notin aborted.kept
                    /\ (pc[r] = "loop" /\ ix[r] > Len(all_items[r])) =>
                          \A k \in DOMAIN all_items[r] :
                              \/ k \in Range(calls[r])
                              \/ all_items[r][k].url \in urls_of(db))

\* the run after a run that an exception ended is through its loop: it
\* passed over an item the ended run had stored and called the classifier
\* for another
C24_Witness ==
    \E r \in Runners :
        /\ aborted.ended /\ aborted.kept # {}
        /\ pc[r] = "loop" /\ ix[r] > Len(all_items[r])
        /\ calls[r] # <<>>
        /\ \E k \in DOMAIN all_items[r] :
              k \notin Range(calls[r]) /\ all_items[r][k].url \in aborted.kept

\* the urls of the items the current run of r has sent to the classifier
called_urls(r) == { all_items[r][k].url : k \in Range(calls[r]) }

\* C25: with a scheduled and a manual run on the same store, no url is
\* stored twice; while both runs are in flight no url has been sent to the
\* classifier by both; and when both have ended with Done, their saved
\* counts add up to the number of rows the two have added.
C25_OverlappingRuns ==
    /\ \A i, j \in DOMAIN db : db[i].url = db[j].url => i = j
    /\ (in_flight("scheduled_run") /\ in_flight("run_now")) =>
           called_urls("scheduled_run") \cap called_urls("run_now") = {}
    /\ (pc["scheduled_run"] = "done" /\ pc["run_now"] = "done") =>
           done_line(new_count["scheduled_run"], relevant_count["scheduled_run"]).saved
             + done_line(new_count["run_now"], relevant_count["run_now"]).saved
           = Cardinality(saved_urls["scheduled_run"] \cup saved_urls["run_now"])

\* the third part of C25 alone, for runs whose stored verdict has a
\* string for reason
C25_SavedCountsAddUp ==
    (pc["scheduled_run"] = "done" /\ pc["run_now"] = "done"
       /\ db # <<>> /\ db[1].ai_reason.t = "str") =>
        relevant_count["scheduled_run"] + relevant_count["run_now"]
          = Cardinality(saved_urls["scheduled_run"] \cup saved_urls["run_now"])

\* C26: within a run, a url that occurs in more than one fetched item is
\* sent to the classifier at most once, counted as new at most once and
\* stored at most once.
C26_BatchDuplicates ==
    \A r \in Runners :
        /\ \A i, j \in Range(calls[r]) :
              all_items[r][i].url = all_items[r][j].url => i = j
        /\ \A i, j \in Range(analyzed[r]) :
              all_items[r][i].url = all_items[r][j].url => i = j
        /\ new_count[r] <= Cardinality({ all_items[r][k].url : k \in DOMAIN all_items[r] })
        /\ \A i, j \in DOMAIN db : db[i].url = db[j].url => i = j

\* the part of C26 about the store, and about the classifier once the
\* url is stored: a url is stored at most once, and no item is sent to the
\* classifier whose url this run has stored
C26_StoredOnce ==
    \A r \in Runners :
        /\ \A i, j \in DOMAIN db : db[i].url = db[j].url => i = j
        /\ pc[r] = "analyze" => all_items[r][ix[r]].url \notin saved_urls[r]

\* C27: when the INSERT of save_item fails, whatever the reason, no row
\* is added, no exception leaves save_item, and the saved count of the run
\* does not count the item: it stays the number of rows the run added.
C27_FailedInsertNotCounted ==
    [][ \A r \in Runners :
          (SaveStep(r) /\ ~insert_ok(db, all_items[r][ix[r]], verdict[r].reason)) =>
              /\ db' = db
              /\ pc'[r] = "loop"
              /\ relevant_count'[r] = Cardinality(saved_urls'[r]) ]_vars

\* the first two parts of C27: a failed INSERT adds no row and no
\* exception leaves save_item
C27_FailedInsertSwallowed ==
    [][ \A r \in Runners :
          (SaveStep(r) /\ ~insert_ok(db, all_items[r][ix[r]], verdict[r].reason)) =>
              /\ db' = db
              /\ pc'[r] = "loop"
              /\ ix'[r] = ix[r] + 1 ]_vars

====
